---- MODULE Spec2Model ----
(***************************************************************************)
(* Model of the snapshot/autosnapshot subsystem of app/main.py:            *)
(* the league_snapshots table, the upstream fetcher with its retry loop,   *)
(* the completion check, the paginated standings walk, the autosnapshot    *)
(* handler with its overall deadline, and the /history readers.            *)
(*                                                                         *)
(* One autosnapshot request is a coroutine; it is modelled with one action *)
(* per stretch of code between two suspension points (await).  JSON values *)
(* are TLA+ functions: a dict is a record whose DOMAIN is its key set, a   *)
(* list is a sequence.                                                     *)
(***************************************************************************)
EXTENDS Integers, Sequences, FiniteSets, TLC

\* ---------------------------------------------------------------- bounds
MaxAttempts == 2
MaxLeague == 2
MaxGW == 2
MaxPages == 3
MaxTime == 2
MaxFixtures == 2

Attempts == 1..MaxAttempts
Leagues == 1..MaxLeague
GWs == 1..MaxGW
Times == 1..MaxTime

\* ------------------------------------------------------- program constants
\* default of _get_json's parameter `attempts`
attempts == 2

\* s.get("event") when the key is missing: Python's None.  gw is only ever
\* tested for truthiness while it can be None, and event ids start at 1.
NoGW == 0

\* the table init_db creates, and the table the /history handlers select from
Tables == {"league_snapshots"}
HISTORY_TABLE == "snapshots"

EmptyDict == [k \in {} |-> TRUE]

\* ------------------------------------------------------------- exceptions
NoErr == [type |-> "None"]
HTTPStatusError(code) == [type |-> "HTTPStatusError", status_code |-> code]
ConnectError == [type |-> "ConnectError"]
OperationalError == [type |-> "OperationalError"]
TimeoutError == [type |-> "TimeoutError"]
CancelledError == [type |-> "CancelledError"]
\* r.json() on a body that is not JSON (line 51, inside _get_json's try)
JSONDecodeError == [type |-> "JSONDecodeError"]
\* a JSON answer of another shape than the code expects: .get on a list
\* (lines 114, 124), f.get on a string (line 65), chunk["standings"] (line 88)
AttributeError == [type |-> "AttributeError"]
KeyError == [type |-> "KeyError"]
HTTPException(code, detail) ==
    [type |-> "HTTPException", status_code |-> code, detail |-> detail]

\* `except Exception` catches every exception but the BaseException-only ones;
\* asyncio.CancelledError derives from BaseException.
IsException(e) == e.type # "CancelledError"

\* the except clauses without the one for httpx.HTTPStatusError
autosnapshot_except_no_passthrough(e) ==
    IF e.type = "TimeoutError"
      THEN HTTPException(504, "Upstream timeout (FPL API slow)")
    ELSE HTTPException(500, e.type)

\* the three except clauses of autosnapshot, in order; detail=str(e) is
\* modelled by the exception's type name
autosnapshot_except(e) ==
    IF e.type = "TimeoutError"
      THEN HTTPException(504, "Upstream timeout (FPL API slow)")
    ELSE IF e.type = "HTTPStatusError"
      THEN HTTPException(e.status_code, e.type)
    ELSE HTTPException(500, e.type)

\* a handler's normal return
Return(body) == [type |-> "return", body |-> body]
NoOutcome == [type |-> "None"]

\* ---------------------------------------------------------- pure helpers
\* bool(d.get(k)) for a boolean-valued key
Truthy(d, k) == (k \in DOMAIN d) /\ d[k]

\* (status.get("status") or [{}])[0]
first_status(status) ==
    IF ("status" \in DOMAIN status) /\ (Len(status.status) > 0)
      THEN status.status[1]
      ELSE EmptyDict

\* s.get("event")
get_event(s) == IF "event" \in DOMAIN s THEN s.event ELSE NoGW

\* [f for f in all_fix if f.get("event") == gw]
filter_fixtures(all_fix, g) ==
    SelectSeq(all_fix, LAMBDA f : ("event" \in DOMAIN f) /\ (f.event = g))

\* the loop without its finished_provisional test
RECURSIVE all_finished_ignoring_provisional(_, _)
all_finished_ignoring_provisional(fx, k) ==
    IF k > Len(fx) THEN TRUE
    ELSE IF ~Truthy(fx[k], "finished") THEN FALSE
    ELSE all_finished_ignoring_provisional(fx, k + 1)

RECURSIVE all_finished_from(_, _)
all_finished_from(fx, k) ==
    IF k > Len(fx) THEN TRUE
    ELSE IF ~Truthy(fx[k], "finished") THEN FALSE
    ELSE IF ("finished_provisional" \in DOMAIN fx[k]) /\ ~fx[k].finished_provisional
      THEN FALSE
    ELSE all_finished_from(fx, k + 1)

fixtures_all_finished(fx) ==
    IF Len(fx) = 0 THEN FALSE ELSE all_finished_from(fx, 1)

\* the flag taken from any event of the gameweek instead of the first
gw_finished_any(bs, g) ==
    LET events == IF "events" \in DOMAIN bs THEN bs.events ELSE <<>>
    IN  \E k \in 1..Len(events) :
            ("id" \in DOMAIN events[k]) /\ (events[k].id = g)
                /\ Truthy(events[k], "finished")

\* bool(event_meta and event_meta.get("finished")) with
\* event_meta = next((e for e in events if e.get("id") == gw), None)
gw_finished_flag(bs, g) ==
    LET events == IF "events" \in DOMAIN bs THEN bs.events ELSE <<>>
        m == SelectSeq(events, LAMBDA e : ("id" \in DOMAIN e) /\ (e.id = g))
    IN  (Len(m) > 0) /\ Truthy(m[1], "finished")

\* the verdict with `or` for `and`
not_any_over(b, f, g) == ~(b \/ f \/ g)
\* the verdict without the bootstrap flag
not_over_ignoring_flag(b, f, g) == ~(b /\ f)
\* the verdict without its `not`
fully_over(b, f, g) == b /\ f /\ g

\* `not (bonus_done and all_done and gw_finished)`
not_fully_over(b, f, g) == ~(b /\ f /\ g)

\* json.dumps / json.loads: the stored text is a wrapper around the value
\* (lossless on dicts with string keys, lists, integers and booleans)
json_dumps(v) == [text |-> v]
json_loads(t) == t.text

\* the loop breaks after every page
has_next_ignored(chunk) == FALSE

\* chunk["standings"].get("has_next")
has_next(chunk) == Truthy(chunk.standings, "has_next")

\* the later page adopted as the accumulator, with the entries so far in front
extend_adopting_page(comb, chunk) ==
    [chunk EXCEPT !.standings.results = comb.standings.results \o @]

\* the later page's entries put in front of the accumulated ones
prepend_results(comb, chunk) ==
    [comb EXCEPT !.standings.results = chunk.standings.results \o @]

\* combined["standings"]["results"].extend(chunk["standings"]["results"])
extend_results(comb, chunk) ==
    [comb EXCEPT !.standings.results = @ \o chunk.standings.results]

\* ------------------------------------------------------------- the store
HasRow(rows, L, g) ==
    \E k \in 1..Len(rows) : (rows[k].league_id = L) /\ (rows[k].gw = g)

NewRow(rows, L, g, t, d) ==
    [id |-> Len(rows) + 1, league_id |-> L, gw |-> g, taken_at |-> t, data |-> d]

\* a plain INSERT on a table without the UNIQUE(league_id, gw) constraint
InsertPlain(rows, L, g, t, d) == Append(rows, NewRow(rows, L, g, t, d))

\* INSERT OR REPLACE: the conflicting row is deleted and the new one added
InsertOrReplace(rows, L, g, t, d) ==
    LET kept == SelectSeq(rows, LAMBDA r : ~((r.league_id = L) /\ (r.gw = g)))
    IN  Append(kept, [id |-> Len(rows) + 1, league_id |-> L, gw |-> g,
                      taken_at |-> t, data |-> d])

\* INSERT OR IGNORE under UNIQUE(league_id, gw)
InsertOrIgnore(rows, L, g, t, d) ==
    IF HasRow(rows, L, g) THEN rows ELSE Append(rows, NewRow(rows, L, g, t, d))

\* ------------------------------------------------------------------ state
VARIABLES
    league_snapshots, \* rows of table league_snapshots, in insertion order
    pc,               \* per request: where the coroutine is
    league_id,        \* per request: the path parameter
    attempt_i,        \* _get_json: loop index i of the call in progress
    phase,            \* _get_json: "get" (awaiting client.get) or "sleep"
    last_err,         \* _get_json: last_err of the call in progress
    raised,           \* what each HTTP attempt of the call in progress raised
    calls,            \* per request: the URLs _get_json was called with
    status,           \* do_work locals
    gw,
    bonus_done,
    fixtures,
    all_done,
    bootstrap,
    gw_finished,
    page,             \* fetch_all_standings locals
    combined,
    chunks,           \* the chunks fetch_fpl_classic returned to the loop, in order
    expired,          \* per request: the 25 s of wait_for have passed
    outcome,          \* per request: what autosnapshot returned or raised
    hist              \* the /history request answered last, not yet consumed

fetcher == <<attempt_i, phase, last_err, raised>>
oracle == <<status, gw, bonus_done, fixtures, all_done, bootstrap, gw_finished>>
aggregator == <<page, combined, chunks>>
vars == <<league_snapshots, pc, league_id, attempt_i, phase, last_err, raised, calls,
          status, gw, bonus_done, fixtures, all_done, bootstrap, gw_finished,
          page, combined, chunks, expired, outcome, hist>>

NoHist == [type |-> "None"]

Init ==
    /\ league_snapshots = <<>>
    /\ pc = [a \in Attempts |-> "idle"]
    /\ league_id = [a \in Attempts |-> 1]
    /\ attempt_i = [a \in Attempts |-> 0]
    /\ phase = [a \in Attempts |-> "get"]
    /\ last_err = [a \in Attempts |-> NoErr]
    /\ raised = [a \in Attempts |-> <<>>]
    /\ calls = [a \in Attempts |-> <<>>]
    /\ status = [a \in Attempts |-> EmptyDict]
    /\ gw = [a \in Attempts |-> NoGW]
    /\ bonus_done = [a \in Attempts |-> FALSE]
    /\ fixtures = [a \in Attempts |-> <<>>]
    /\ all_done = [a \in Attempts |-> FALSE]
    /\ bootstrap = [a \in Attempts |-> EmptyDict]
    /\ gw_finished = [a \in Attempts |-> FALSE]
    /\ page = [a \in Attempts |-> 0]
    /\ combined = [a \in Attempts |-> EmptyDict]
    /\ chunks = [a \in Attempts |-> <<>>]
    /\ expired = [a \in Attempts |-> FALSE]
    /\ outcome = [a \in Attempts |-> NoOutcome]
    /\ hist = NoHist

Fetching == {"event_status", "fixtures", "bootstrap", "standings"}
Active == Fetching \cup {"persisting"}

\* a new call of _get_json(url): last_err = None, i = 0, first client.get
StartFetch(a, url) ==
    /\ attempt_i' = [attempt_i EXCEPT ![a] = 0]
    /\ phase' = [phase EXCEPT ![a] = "get"]
    /\ last_err' = [last_err EXCEPT ![a] = NoErr]
    /\ raised' = [raised EXCEPT ![a] = <<>>]
    /\ calls' = [calls EXCEPT ![a] = Append(@, url)]

\* an exception leaves do_work and wait_for and reaches autosnapshot's excepts
Raise(a, e) ==
    /\ pc' = [pc EXCEPT ![a] = "done"]
    /\ outcome' = [outcome EXCEPT ![a] = autosnapshot_except(e)]

\* POST /autosnapshot/{league_id}: up to the first await of client.get
Trigger(a, L) ==
    /\ pc[a] \in {"idle", "done"}
    /\ pc' = [pc EXCEPT ![a] = "event_status"]
    /\ league_id' = [league_id EXCEPT ![a] = L]
    /\ attempt_i' = [attempt_i EXCEPT ![a] = 0]
    /\ phase' = [phase EXCEPT ![a] = "get"]
    /\ last_err' = [last_err EXCEPT ![a] = NoErr]
    /\ raised' = [raised EXCEPT ![a] = <<>>]
    /\ calls' = [calls EXCEPT ![a] = <<"event-status">>]
    /\ status' = [status EXCEPT ![a] = EmptyDict]
    /\ gw' = [gw EXCEPT ![a] = NoGW]
    /\ bonus_done' = [bonus_done EXCEPT ![a] = FALSE]
    /\ fixtures' = [fixtures EXCEPT ![a] = <<>>]
    /\ all_done' = [all_done EXCEPT ![a] = FALSE]
    /\ bootstrap' = [bootstrap EXCEPT ![a] = EmptyDict]
    /\ gw_finished' = [gw_finished EXCEPT ![a] = FALSE]
    /\ page' = [page EXCEPT ![a] = 0]
    /\ combined' = [combined EXCEPT ![a] = EmptyDict]
    /\ chunks' = [chunks EXCEPT ![a] = <<>>]
    /\ expired' = [expired EXCEPT ![a] = FALSE]
    /\ outcome' = [outcome EXCEPT ![a] = NoOutcome]
    /\ UNCHANGED <<league_snapshots, hist>>

\* _get_json: client.get or raise_for_status raises e; `except Exception`
\* stores it and the coroutine goes to sleep
GetFails(a, e) ==
    /\ pc[a] \in Fetching
    /\ phase[a] = "get"
    /\ IsException(e)
    /\ last_err' = [last_err EXCEPT ![a] = e]
    /\ raised' = [raised EXCEPT ![a] = Append(@, e)]
    /\ phase' = [phase EXCEPT ![a] = "sleep"]
    /\ UNCHANGED <<league_snapshots, pc, league_id, attempt_i, calls, oracle,
                   aggregator, expired, outcome, hist>>

\* the sleep is followed by `raise last_err` whatever the loop index
SleepDoneNoRetry(a) ==
    /\ pc[a] \in Fetching
    /\ phase[a] = "sleep"
    /\ Raise(a, last_err[a])
    /\ UNCHANGED <<league_snapshots, league_id, fetcher, calls, oracle,
                   aggregator, expired, hist>>

\* _get_json: asyncio.sleep returns; next iteration of `for i in
\* range(attempts)`, or `raise last_err` when the range is exhausted
SleepDone(a) ==
    /\ pc[a] \in Fetching
    /\ phase[a] = "sleep"
    /\ IF attempt_i[a] + 1 < attempts
         THEN /\ attempt_i' = [attempt_i EXCEPT ![a] = @ + 1]
              /\ phase' = [phase EXCEPT ![a] = "get"]
              /\ UNCHANGED <<pc, outcome, raised>>
         ELSE /\ Raise(a, last_err[a])
              /\ UNCHANGED <<attempt_i, phase, raised>>
    /\ UNCHANGED <<league_snapshots, league_id, last_err, calls, oracle,
                   aggregator, expired, hist>>

\* do_work, lines 113-120: the event-status response arrives
RecvEventStatus(a, resp) ==
    /\ pc[a] = "event_status"
    /\ phase[a] = "get"
    /\ LET s == first_status(resp)
           g == get_event(s)
       IN  /\ status' = [status EXCEPT ![a] = resp]
           /\ gw' = [gw EXCEPT ![a] = g]
           /\ bonus_done' = [bonus_done EXCEPT ![a] = Truthy(s, "bonus_added")]
           /\ IF g = NoGW
                THEN /\ Raise(a, HTTPException(503, "Could not determine current GW"))
                     /\ UNCHANGED <<fetcher, calls>>
                ELSE /\ pc' = [pc EXCEPT ![a] = "fixtures"]
                     /\ StartFetch(a, "fixtures")
                     /\ UNCHANGED outcome
    /\ UNCHANGED <<league_snapshots, league_id, fixtures, all_done, bootstrap,
                   gw_finished, aggregator, expired, hist>>

\* fetch_fixtures_for_gw's return and do_work, lines 121-123
RecvFixtures(a, all_fix) ==
    /\ pc[a] = "fixtures"
    /\ phase[a] = "get"
    /\ LET fx == filter_fixtures(all_fix, gw[a])
       IN  /\ fixtures' = [fixtures EXCEPT ![a] = fx]
           /\ all_done' = [all_done EXCEPT ![a] = fixtures_all_finished(fx)]
    /\ pc' = [pc EXCEPT ![a] = "bootstrap"]
    /\ StartFetch(a, "bootstrap-static")
    /\ UNCHANGED <<league_snapshots, league_id, status, gw, bonus_done, bootstrap,
                   gw_finished, aggregator, expired, outcome, hist>>

\* do_work, lines 124-131, and fetch_all_standings up to its first await
RecvBootstrap(a, resp) ==
    /\ pc[a] = "bootstrap"
    /\ phase[a] = "get"
    /\ LET gf == gw_finished_flag(resp, gw[a])
       IN  /\ bootstrap' = [bootstrap EXCEPT ![a] = resp]
           /\ gw_finished' = [gw_finished EXCEPT ![a] = gf]
           /\ IF not_fully_over(bonus_done[a], all_done[a], gf)
                THEN /\ pc' = [pc EXCEPT ![a] = "done"]
                     /\ outcome' = [outcome EXCEPT ![a] = Return(
                            [ok |-> FALSE, gw |-> gw[a],
                             bonus_added |-> bonus_done[a],
                             fixtures_all_finished |-> all_done[a],
                             gw_finished_flag |-> gf,
                             reason |-> "GW not fully over yet"])]
                     /\ UNCHANGED <<fetcher, calls, aggregator>>
                ELSE /\ pc' = [pc EXCEPT ![a] = "standings"]
                     /\ page' = [page EXCEPT ![a] = 1]
                     /\ combined' = [combined EXCEPT ![a] = EmptyDict]
                     /\ chunks' = [chunks EXCEPT ![a] = <<>>]
                     /\ StartFetch(a, <<"standings", league_id[a], 1>>)
                     /\ UNCHANGED outcome
    /\ UNCHANGED <<league_snapshots, league_id, status, gw, bonus_done, fixtures,
                   all_done, expired, hist>>

\* fetch_all_standings, lines 84-92: one page arrives
RecvStandings(a, chunk) ==
    /\ pc[a] = "standings"
    /\ phase[a] = "get"
    /\ combined' = [combined EXCEPT ![a] =
                       IF combined[a] = EmptyDict THEN chunk
                       ELSE extend_results(combined[a], chunk)]
    /\ chunks' = [chunks EXCEPT ![a] = Append(@, chunk)]
    /\ IF ~has_next(chunk)
         THEN /\ pc' = [pc EXCEPT ![a] = "persisting"]
              /\ UNCHANGED <<page, fetcher, calls>>
         ELSE /\ page' = [page EXCEPT ![a] = @ + 1]
              /\ StartFetch(a, <<"standings", league_id[a], page[a] + 1>>)
              /\ UNCHANGED pc
    /\ UNCHANGED <<league_snapshots, league_id, oracle, expired, outcome, hist>>

\* what the code raises on a JSON answer of the wrong shape at each stage
malformed_error(stage) == IF stage = "standings" THEN KeyError ELSE AttributeError

\* _get_json returns a JSON value of the wrong shape: the first use of it in
\* do_work (lines 114, 65, 124) or in fetch_all_standings (lines 88-89) raises
RecvMalformed(a) ==
    /\ pc[a] \in Fetching
    /\ phase[a] = "get"
    /\ Raise(a, malformed_error(pc[a]))
    /\ UNCHANGED <<league_snapshots, league_id, fetcher, calls, oracle,
                   aggregator, expired, hist>>

\* the failure is raised after the commit took effect
PersistFailsAfterCommit(a, now, ioerr) ==
    /\ ioerr
    /\ Raise(a, OperationalError)
    /\ league_snapshots' = InsertOrIgnore(league_snapshots, league_id[a], gw[a],
                                          now, json_dumps(combined[a]))

\* an sqlite call of lines 132-139 fails before the commit takes effect
PersistFails(a, now, ioerr) ==
    /\ ioerr
    /\ Raise(a, OperationalError)
    /\ UNCHANGED league_snapshots

\* do_work, lines 132-140: connect, INSERT OR IGNORE, commit, close, return.
\* There is no await in these lines: the coroutine cannot be cancelled here.
Persist(a, now, ioerr) ==
    /\ pc[a] = "persisting"
    /\ \/ PersistFails(a, now, ioerr)
       \/ /\ ~ioerr
          /\ league_snapshots' = InsertOrIgnore(league_snapshots, league_id[a],
                                     gw[a], now, json_dumps(combined[a]))
          /\ pc' = [pc EXCEPT ![a] = "done"]
          /\ outcome' = [outcome EXCEPT ![a] = Return(
                 [ok |-> TRUE, snapshotted |-> TRUE, gw |-> gw[a]])]
    /\ UNCHANGED <<league_id, fetcher, calls, oracle, aggregator, expired, hist>>

\* do_work awaited without wait_for: the 25 s pass and nothing is cancelled
DeadlineIgnored(a) ==
    /\ pc[a] \in Active
    /\ ~expired[a]
    /\ expired' = [expired EXCEPT ![a] = TRUE]
    /\ UNCHANGED <<league_snapshots, pc, league_id, fetcher, calls, oracle,
                   aggregator, outcome, hist>>

\* asyncio.wait_for(do_work(), timeout=25.0): the 25 s pass.  A coroutine
\* suspended at an await is cancelled: CancelledError is thrown into it, and
\* unless a handler on its way catches it, wait_for raises TimeoutError.  A
\* coroutine inside lines 132-140 is not suspended and runs on.
DeadlineExpires(a) ==
    /\ pc[a] \in Active
    /\ ~expired[a]
    /\ expired' = [expired EXCEPT ![a] = TRUE]
    /\ IF pc[a] = "persisting"
         THEN UNCHANGED <<pc, outcome, fetcher>>
       ELSE IF (phase[a] = "get") /\ IsException(CancelledError)
         THEN /\ last_err' = [last_err EXCEPT ![a] = CancelledError]
              /\ raised' = [raised EXCEPT ![a] = Append(@, CancelledError)]
              /\ phase' = [phase EXCEPT ![a] = "sleep"]
              /\ UNCHANGED <<pc, outcome, attempt_i>>
       ELSE /\ Raise(a, TimeoutError)
            /\ UNCHANGED fetcher
    /\ UNCHANGED <<league_snapshots, league_id, calls, oracle, aggregator, hist>>

\* ----------------------------------------------------------- /history
\* rows of table t; only tables of the database can be selected from
TableRows(t) == IF t = "league_snapshots" THEN league_snapshots ELSE <<>>

\* `except Exception as e: raise HTTPException(status_code=500, ...)` of the
\* two history handlers
history_except(e) == HTTPException(500, e.type)

\* ORDER BY gw ASC
RECURSIVE order_by_gw(_)
order_by_gw(S) ==
    IF S = {} THEN <<>>
    ELSE LET r == CHOOSE x \in S : \A y \in S : x.gw <= y.gw
         IN  <<r>> \o order_by_gw(S \ {r})

\* SELECT ... WHERE league_id = ? [AND gw = ?]
select_league(rows, L) ==
    order_by_gw({rows[k] : k \in {j \in 1..Len(rows) : rows[j].league_id = L}})
select_league_gw(rows, L, g) ==
    SelectSeq(rows, LAMBDA r : (r.league_id = L) /\ (r.gw = g))

\* GET /history/{league_id}
get_history(L) ==
    IF HISTORY_TABLE \notin Tables THEN history_except(OperationalError)
    ELSE LET rows == select_league(TableRows(HISTORY_TABLE), L)
         IN  Return([history |-> [k \in 1..Len(rows) |->
                       [gw |-> rows[k].gw, data |-> json_loads(rows[k].data)]]])

\* GET /history/{league_id}/{gw}
get_history_gw(L, g) ==
    IF HISTORY_TABLE \notin Tables THEN history_except(OperationalError)
    ELSE LET rows == select_league_gw(TableRows(HISTORY_TABLE), L, g)
         IN  IF Len(rows) = 0
               THEN history_except(HTTPException(404, "No snapshot found for that GW"))
               ELSE Return([gw |-> g, data |-> json_loads(rows[1].data)])

GetHistory(L) ==
    /\ hist = NoHist
    /\ hist' = [type |-> "history", league_id |-> L, gw |-> NoGW,
                resp |-> get_history(L)]
    /\ UNCHANGED <<league_snapshots, pc, league_id, fetcher, calls, oracle,
                   aggregator, expired, outcome>>

GetHistoryGw(L, g) ==
    /\ hist = NoHist
    /\ hist' = [type |-> "history_gw", league_id |-> L, gw |-> g,
                resp |-> get_history_gw(L, g)]
    /\ UNCHANGED <<league_snapshots, pc, league_id, fetcher, calls, oracle,
                   aggregator, expired, outcome>>

\* the client has read the answer
HistoryConsumed ==
    /\ hist # NoHist
    /\ hist' = NoHist
    /\ UNCHANGED <<league_snapshots, pc, league_id, fetcher, calls, oracle,
                   aggregator, expired, outcome>>

\* -------------------------------------------------- the upstream's answers
\* what a failed HTTP attempt raises: raise_for_status on a 4xx/5xx answer,
\* or a connection failure
Errors == {HTTPStatusError(404), ConnectError}

\* event-status answers: no "status" key, an empty list, one entry with or
\* without "event" and "bonus_added", and two entries that disagree
StatusEntries ==
    {EmptyDict}
      \cup {[event |-> g] : g \in GWs}
      \cup {[bonus_added |-> b] : b \in BOOLEAN}
      \cup {[event |-> g, bonus_added |-> b] : g \in GWs, b \in BOOLEAN}
StatusResponses ==
    {EmptyDict, [status |-> <<>>]}
      \cup {[status |-> <<s>>] : s \in StatusEntries}
      \cup {[status |-> <<[event |-> g, bonus_added |-> FALSE],
                          [event |-> g, bonus_added |-> TRUE]>>] : g \in GWs}

\* fixtures answers: up to two fixtures of any gameweek, finished or not,
\* with or without "finished_provisional" (which is set before "finished")
FixtureRecords ==
    {[event |-> g, finished |-> f] : g \in GWs, f \in BOOLEAN}
      \cup {[event |-> g, finished |-> TRUE, finished_provisional |-> q] :
              g \in GWs, q \in BOOLEAN}
      \cup {[event |-> g, finished |-> FALSE, finished_provisional |-> TRUE] :
              g \in GWs}
FixturesResponses ==
    {<<>>} \cup {<<f>> : f \in FixtureRecords}
           \cup {<<f1, f2>> : f1 \in FixtureRecords, f2 \in FixtureRecords}

\* fixtures answers of up to MaxFixtures fixtures: a fixture of gameweek 1 has
\* "finished" and "finished_provisional" each missing, false or true; a
\* fixture of another gameweek is finished
Flag(key) == {EmptyDict} \cup {[k \in {key} |-> b] : b \in BOOLEAN}
Merge(f, g) ==
    [k \in DOMAIN f \cup DOMAIN g |-> IF k \in DOMAIN f THEN f[k] ELSE g[k]]
AnyFixtureRecords ==
    {Merge([event |-> 1], Merge(f, q)) :
        f \in Flag("finished"), q \in Flag("finished_provisional")}
      \cup {[event |-> g, finished |-> TRUE] : g \in GWs \ {1}}
AnyFixturesResponses ==
    UNION {[1..n -> AnyFixtureRecords] : n \in 0..MaxFixtures}

\* bootstrap answers: no "events" key, or up to two events
EventRecords == {[id |-> g, finished |-> f] : g \in GWs, f \in BOOLEAN}
BootstrapResponses ==
    {EmptyDict, [events |-> <<>>]}
      \cup {[events |-> <<e>>] : e \in EventRecords}
      \cup {[events |-> <<e1, e2>>] : e1 \in EventRecords, e2 \in EventRecords}

\* page p of a league; the last page the model asks for has no successor
Chunk(L, r, hn) ==
    [league |-> [id |-> L], standings |-> [has_next |-> hn, results |-> r]]
StandingsResponses(L, p, results) ==
    {Chunk(L, r, hn) : r \in results, hn \in {h \in BOOLEAN : h => (p < MaxPages)}}

\* page p as the upstream numbers it: "page" is standings metadata next to
\* "has_next", which the last page may also leave out
PagedChunk(L, p, r, hn) ==
    [league |-> [id |-> L],
     standings |-> [has_next |-> hn, page |-> p, results |-> r]]
LastChunk(L, p, r) ==
    [league |-> [id |-> L], standings |-> [page |-> p, results |-> r]]
PagedResponses(L, p, results) ==
    {PagedChunk(L, p, r, hn) :
        r \in results, hn \in {h \in BOOLEAN : h => (p < MaxPages)}}
      \cup {LastChunk(L, p, r) : r \in results}

\* failed attempts of every kind: two upstream status codes, a connection
\* failure, a body that is not JSON
AllErrors == Errors \cup {HTTPStatusError(503), JSONDecodeError}

\* the answers that decide the verdict while gameweek 1 is current
LeanStatus ==
    {[status |-> <<>>]}
      \cup {[status |-> <<[event |-> 1, bonus_added |-> b]>>] : b \in BOOLEAN}
LeanFixtures == {<<[event |-> 1, finished |-> f]>> : f \in BOOLEAN}
LeanBootstrap == {[events |-> <<[id |-> 1, finished |-> f]>>] : f \in BOOLEAN}

\* ------------------------------------------------------- specifications
\* One request at a time for league 1, against every event-status, fixtures
\* and bootstrap answer above; the league has one page of standings.
Next ==
    \/ Trigger(1, 1)
    \/ \E e \in Errors : GetFails(1, e)
    \/ SleepDone(1)
    \/ \E r \in StatusResponses : RecvEventStatus(1, r)
    \/ \E r \in FixturesResponses : RecvFixtures(1, r)
    \/ \E r \in BootstrapResponses : RecvBootstrap(1, r)
    \/ \E r \in StandingsResponses(1, MaxPages, {<<1>>}) : RecvStandings(1, r)
    \/ \E x \in BOOLEAN : Persist(1, 1, x)
    \/ DeadlineExpires(1)

Spec == Init /\ [][Next]_vars

\* One request at a time for league 1 while gameweek 1 is current; the league
\* has up to MaxPages pages of standings.
NextPages ==
    \/ Trigger(1, 1)
    \/ \E e \in AllErrors : GetFails(1, e)
    \/ SleepDone(1)
    \/ \E r \in LeanStatus : RecvEventStatus(1, r)
    \/ \E r \in LeanFixtures : RecvFixtures(1, r)
    \/ \E r \in LeanBootstrap : RecvBootstrap(1, r)
    \/ \E r \in PagedResponses(1, page[1], {<<>>, <<1>>, <<2, 1>>}) : RecvStandings(1, r)
    \/ RecvMalformed(1)
    \/ \E x \in BOOLEAN : Persist(1, 1, x)
    \/ DeadlineExpires(1)

SpecPages == Init /\ [][NextPages]_vars

\* The same requests under the scheduling the event loop guarantees: the
\* timer of wait_for fires once its 25 s have passed, and the blocking
\* sqlite3 calls of lines 132-139 return.  Upstream answers are not
\* guaranteed; the upstream may report has_next on every page it serves.
SpecLive ==
    /\ Init
    /\ [][NextPages]_vars
    /\ WF_vars(DeadlineExpires(1))
    /\ WF_vars(\E x \in BOOLEAN : Persist(1, 1, x))

\* One request at a time for league 1 while gameweek 1 is current, against
\* every fixtures answer of up to MaxFixtures fixtures.
NextFixtures ==
    \/ Trigger(1, 1)
    \/ GetFails(1, ConnectError)
    \/ SleepDone(1)
    \/ \E r \in LeanStatus : RecvEventStatus(1, r)
    \/ \E r \in AnyFixturesResponses : RecvFixtures(1, r)
    \/ \E r \in LeanBootstrap : RecvBootstrap(1, r)
    \/ \E r \in StandingsResponses(1, MaxPages, {<<1>>}) : RecvStandings(1, r)
    \/ \E x \in BOOLEAN : Persist(1, 1, x)
    \/ DeadlineExpires(1)

SpecFixtures == Init /\ [][NextFixtures]_vars

\* Concurrent and repeated requests for all leagues while gameweek 1 is
\* current; the payloads and the timestamps differ.
NextRace ==
    \/ \E a \in Attempts, L \in Leagues : Trigger(a, L)
    \/ \E a \in Attempts : GetFails(a, ConnectError)
    \/ \E a \in Attempts : SleepDone(a)
    \/ \E a \in Attempts, r \in LeanStatus : RecvEventStatus(a, r)
    \/ \E a \in Attempts, r \in LeanFixtures : RecvFixtures(a, r)
    \/ \E a \in Attempts, r \in LeanBootstrap : RecvBootstrap(a, r)
    \/ \E a \in Attempts :
         \E r \in StandingsResponses(league_id[a], MaxPages, {<<1>>, <<2>>}) : RecvStandings(a, r)
    \/ \E a \in Attempts, t \in Times, x \in BOOLEAN : Persist(a, t, x)
    \/ \E a \in Attempts : DeadlineExpires(a)

SpecRace == Init /\ [][NextRace]_vars

\* One request at a time plus the history readers.
NextHistory ==
    \/ \E L \in Leagues : Trigger(1, L)
    \/ GetFails(1, ConnectError)
    \/ SleepDone(1)
    \/ \E r \in LeanStatus : RecvEventStatus(1, r)
    \/ \E r \in LeanFixtures : RecvFixtures(1, r)
    \/ \E r \in LeanBootstrap : RecvBootstrap(1, r)
    \/ \E r \in StandingsResponses(league_id[1], page[1], {<<1>>}) : RecvStandings(1, r)
    \/ \E x \in BOOLEAN : Persist(1, 1, x)
    \/ DeadlineExpires(1)
    \/ \E L \in Leagues : GetHistory(L)
    \/ \E L \in Leagues, g \in GWs : GetHistoryGw(L, g)
    \/ HistoryConsumed

SpecHistory == Init /\ [][NextHistory]_vars

\* ------------------------------------------------------------------ claims
Snapshotted(g) == Return([ok |-> TRUE, snapshotted |-> TRUE, gw |-> g])
IsSnapshotted(a) == (pc[a] = "done") /\ (outcome[a] = Snapshotted(gw[a]))
IsNotReady(a) ==
    (pc[a] = "done") /\ (outcome[a].type = "return") /\ ~outcome[a].body.ok
TimedOut == HTTPException(504, "Upstream timeout (FPL API slow)")

\* C1: the table never holds two rows with the same (league_id, gw),
\* whatever the number and interleaving of autosnapshot requests.
C1_UniquePerPair ==
    \A j, k \in 1..Len(league_snapshots) :
        ((league_snapshots[j].league_id = league_snapshots[k].league_id)
            /\ (league_snapshots[j].gw = league_snapshots[k].gw)) => (j = k)

\* two requests for the same league and gameweek have both been answered
\* Snapshotted, with different payloads, and the table holds one row
C1_Witness ==
    /\ Len(league_snapshots) = 1
    /\ \E a, b \in Attempts :
          /\ a # b
          /\ IsSnapshotted(a)
          /\ IsSnapshotted(b)
          /\ league_id[a] = league_id[b]
          /\ gw[a] = gw[b]
          /\ combined[a] # combined[b]

\* C2: a row, once stored, is never changed or removed by any step, and an
\* insert for a pair that already has a row changes nothing in the table and
\* still ends in the Snapshotted answer unless sqlite itself failed.
C2_FirstWriterWins ==
    [][ /\ \A k \in 1..Len(league_snapshots) :
              (Len(league_snapshots') >= k)
                 /\ (league_snapshots'[k] = league_snapshots[k])
        /\ \A a \in Attempts :
              ((pc[a] = "persisting") /\ (pc'[a] = "done")
                  /\ HasRow(league_snapshots, league_id[a], gw[a]))
              => /\ league_snapshots' = league_snapshots
                 /\ outcome'[a] \in {Snapshotted(gw[a]),
                                     autosnapshot_except(OperationalError)}
      ]_vars

\* a request answered Snapshotted while the row of its pair holds another
\* request's payload
C2_Witness ==
    \E a \in Attempts :
        /\ IsSnapshotted(a)
        /\ \E k \in 1..Len(league_snapshots) :
              /\ league_snapshots[k].league_id = league_id[a]
              /\ league_snapshots[k].gw = gw[a]
              /\ league_snapshots[k].data # json_dumps(combined[a])

\* what request a observed, read off the answers it keeps in its locals
ObservedEntry(a) == first_status(status[a])
ObservedBonus(a) ==
    ("bonus_added" \in DOMAIN ObservedEntry(a)) /\ ObservedEntry(a).bonus_added
ObservedFixturesDone(a, g) ==
    /\ fixtures[a] # <<>>
    /\ \A k \in 1..Len(fixtures[a]) :
          /\ fixtures[a][k].event = g
          /\ fixtures[a][k].finished
          /\ ("finished_provisional" \in DOMAIN fixtures[a][k])
                => fixtures[a][k].finished_provisional
ObservedEvents(a) ==
    IF "events" \in DOMAIN bootstrap[a] THEN bootstrap[a].events ELSE <<>>
\* the first event with id g exists and is finished
ObservedEventDone(a, g) ==
    \E k \in 1..Len(ObservedEvents(a)) :
        /\ ObservedEvents(a)[k].id = g
        /\ ObservedEvents(a)[k].finished
        /\ \A j \in 1..(k - 1) : ObservedEvents(a)[j].id # g

\* C3: every row that appears in the table is written by a request whose own
\* observations were all positive for the row's gameweek: bonus_added of the
\* first event-status entry, every fixture of that gameweek finished, and the
\* bootstrap event of that id finished.
C3_RowsOnlyOnPositiveVerdict ==
    [][ \A k \in (Len(league_snapshots) + 1)..Len(league_snapshots') :
          \E a \in Attempts :
              /\ pc[a] = "persisting"
              /\ league_snapshots'[k].league_id = league_id[a]
              /\ league_snapshots'[k].gw = gw[a]
              /\ ("event" \in DOMAIN ObservedEntry(a))
              /\ ObservedEntry(a).event = gw[a]
              /\ ObservedBonus(a)
              /\ ObservedFixturesDone(a, gw[a])
              /\ ObservedEventDone(a, gw[a])
      ]_vars

\* a request has written the row of its pair
C3_Witness ==
    \E a \in Attempts :
        /\ IsSnapshotted(a)
        /\ \E k \in 1..Len(league_snapshots) :
              /\ league_snapshots[k].league_id = league_id[a]
              /\ league_snapshots[k].gw = gw[a]
              /\ league_snapshots[k].data = json_dumps(combined[a])

\* the event-status call of request a returned (it neither raised nor was
\* cancelled)
StatusReceived(a) ==
    \/ Len(calls[a]) > 1
    \/ (pc[a] = "done") /\ (Len(calls[a]) = 1) /\ ~expired[a] /\ (phase[a] = "get")
CannotDetermineGW(a) ==
    /\ StatusReceived(a)
    /\ \/ "status" \notin DOMAIN status[a]
       \/ status[a].status = <<>>
       \/ "event" \notin DOMAIN status[a].status[1]

\* C4: a request that cannot determine the gameweek is answered with status
\* 503 and has called nothing but event-status.
C4_UnavailableIs503 ==
    \A a \in Attempts :
        CannotDetermineGW(a) =>
            /\ pc[a] = "done"
            /\ outcome[a].type = "HTTPException"
            /\ outcome[a].status_code = 503
            /\ calls[a] = <<"event-status">>

\* C5: once a request for league L was answered Snapshotted for gw, a history
\* read of L lists gw, and a history read of (L, gw) returns the stored body.
C5_HistorySeesSnapshot ==
    [][ \A a \in Attempts :
          (IsSnapshotted(a) /\ (hist = NoHist) /\ (hist' # NoHist)
              /\ (hist'.league_id = league_id[a]))
          => /\ hist'.resp.type = "return"
             /\ (hist'.type = "history") =>
                   \E k \in 1..Len(hist'.resp.body.history) :
                       hist'.resp.body.history[k].gw = gw[a]
             /\ ((hist'.type = "history_gw") /\ (hist'.gw = gw[a])) =>
                   \E k \in 1..Len(league_snapshots) :
                       /\ league_snapshots[k].league_id = league_id[a]
                       /\ league_snapshots[k].gw = gw[a]
                       /\ hist'.resp.body.data = json_loads(league_snapshots[k].data)
      ]_vars

\* the request went on to the standings aggregator
Proceeded(a) == Len(calls[a]) >= 4

\* C6: a request goes on to the aggregator only with all three signals true and
\* is answered NotReady only with one of them false; with an unfinished fixture
\* of the gameweek, or with no bootstrap event of the gameweek's id, it never
\* goes on.
C6_VerdictIsConjunction ==
    \A a \in Attempts :
        /\ Proceeded(a) => (bonus_done[a] /\ all_done[a] /\ gw_finished[a])
        /\ IsNotReady(a) => ~(bonus_done[a] /\ all_done[a] /\ gw_finished[a])
        /\ (bonus_done[a] /\ all_done[a] /\ gw_finished[a]) => Proceeded(a)
        /\ (\E k \in 1..Len(fixtures[a]) : ~fixtures[a][k].finished) => ~Proceeded(a)
        /\ (\A k \in 1..Len(ObservedEvents(a)) : ObservedEvents(a)[k].id # gw[a])
              => ~Proceeded(a)

\* NotReady although bonus and the bootstrap flag are in: one fixture of the
\* gameweek is unfinished
C6_Witness ==
    \E a \in Attempts :
        /\ IsNotReady(a)
        /\ bonus_done[a]
        /\ gw_finished[a]
        /\ \E k \in 1..Len(fixtures[a]) : ~fixtures[a][k].finished

NotReadyCarriesObserved(a) ==
    IsNotReady(a) =>
        /\ outcome[a].body.gw = ObservedEntry(a).event
        /\ outcome[a].body.bonus_added = ObservedBonus(a)
        /\ outcome[a].body.fixtures_all_finished = ObservedFixturesDone(a, gw[a])
        /\ outcome[a].body.gw_finished_flag = ObservedEventDone(a, gw[a])
        /\ calls[a] = <<"event-status", "fixtures", "bootstrap-static">>
        /\ page[a] = 0

\* C7: a NotReady answer carries the gameweek and the three signals as the
\* request observed them, and the request has called only event-status,
\* fixtures and bootstrap: no standings page, and no step of it wrote a row.
C7_NotReadyAsObserved ==
    [][ \A a \in Attempts :
          /\ NotReadyCarriesObserved(a)'
          /\ (IsNotReady(a)' /\ (pc[a] # "done")) =>
                (league_snapshots' = league_snapshots)
      ]_vars

\* NotReady with two bootstrap events of the gameweek's id that disagree
C7_Witness ==
    \E a \in Attempts :
        /\ IsNotReady(a)
        /\ bonus_done[a]
        /\ all_done[a]
        /\ Len(ObservedEvents(a)) = 2
        /\ ObservedEvents(a)[1].id = gw[a]
        /\ ObservedEvents(a)[2].id = gw[a]
        /\ ObservedEvents(a)[2].finished

\* C8: a request that observed all three signals true, whose deadline did not
\* expire, whose last upstream call met no failure and whose store code did
\* not fail, has gone through the aggregator and is answered Snapshotted{gw}.
C8_FinishedEndsSnapshotted ==
    \A a \in Attempts :
        ( /\ pc[a] = "done"
          /\ ObservedBonus(a)
          /\ ObservedFixturesDone(a, gw[a])
          /\ ObservedEventDone(a, gw[a])
          /\ ~expired[a]
          /\ last_err[a] = NoErr
          /\ outcome[a] # autosnapshot_except(OperationalError) )
        => /\ outcome[a] = Snapshotted(gw[a])
           /\ Proceeded(a)

\* answered Snapshotted for gameweek 1 although its row was already there:
\* it is older than the row of gameweek 2, which an earlier request wrote
C8_Witness ==
    /\ IsSnapshotted(1)
    /\ ~expired[1]
    /\ last_err[1] = NoErr
    /\ gw[1] = 1
    /\ Len(league_snapshots) = 2
    /\ league_snapshots[1].gw = 1
    /\ league_snapshots[2].gw = 2

\* C9: the table changes only in the step that ends a request with the
\* Snapshotted answer; a step that ends a request otherwise leaves it alone.
C9_OnlySnapshottedWrites ==
    [][ /\ (league_snapshots' # league_snapshots) =>
              \E a \in Attempts :
                  /\ pc[a] = "persisting"
                  /\ pc'[a] = "done"
                  /\ outcome'[a] = Snapshotted(gw[a])
        /\ \A a \in Attempts :
              ((pc[a] # "done") /\ (pc'[a] = "done")
                  /\ (outcome'[a] # Snapshotted(gw[a])))
              => (league_snapshots' = league_snapshots)
      ]_vars

\* a request ended with an error after page 1 of 2 had arrived
C9_Witness ==
    \E a \in Attempts :
        /\ pc[a] = "done"
        /\ outcome[a].type = "HTTPException"
        /\ page[a] = 2
        /\ combined[a] # EmptyDict

\* C10: a request whose deadline expired, in whatever state, is answered
\* TimedOut (504).
C10_ExpiredIsTimedOut ==
    \A a \in Attempts :
        ((pc[a] = "done") /\ expired[a]) => (outcome[a] = TimedOut)

\* C11: when a call of the fetcher gives up, at whatever stage, the request
\* is answered with the upstream's status code if the error of the last
\* attempt was a non-2xx answer, and with 500 for every other error of the
\* last attempt (connection failure, body that is not JSON); an answer of the
\* wrong shape and an sqlite failure are answered 500 as well.  The answer
\* depends on the error alone.
C11_ErrorsMapToFixedOutcomes ==
    [][ \A a \in Attempts :
          /\ ((pc[a] \in Fetching) /\ (pc'[a] = "done") /\ (phase[a] = "sleep")
                  /\ (expired'[a] = expired[a]))
              => outcome'[a] =
                    IF last_err[a].type = "HTTPStatusError"
                      THEN [type |-> "HTTPException",
                            status_code |-> last_err[a].status_code,
                            detail |-> "HTTPStatusError"]
                      ELSE [type |-> "HTTPException", status_code |-> 500,
                            detail |-> last_err[a].type]
          /\ ((pc[a] \in Fetching) /\ (pc'[a] = "done") /\ (phase[a] = "get")
                  /\ (expired'[a] = expired[a]) /\ (outcome'[a].type # "return")
                  /\ (outcome'[a].detail # "HTTPException"))
              => outcome'[a] = [type |-> "HTTPException", status_code |-> 500,
                                detail |-> IF pc[a] = "standings"
                                             THEN "KeyError" ELSE "AttributeError"]
          /\ ((pc[a] = "persisting") /\ (pc'[a] = "done")
                  /\ (outcome'[a].type # "return"))
              => outcome'[a] = [type |-> "HTTPException", status_code |-> 500,
                                detail |-> "OperationalError"]
      ]_vars

\* the second page of standings was answered 503 twice and the request was
\* answered 503
C11_Witness ==
    \E a \in Attempts :
        /\ pc[a] = "done"
        /\ ~expired[a]
        /\ page[a] = 2
        /\ attempt_i[a] = 1
        /\ last_err[a] = HTTPStatusError(503)
        /\ outcome[a].type = "HTTPException"
        /\ outcome[a].status_code = 503

\* the walk of request a is over: its last chunk reported no further page
WalkFinished(a) ==
    (chunks[a] # <<>>) /\ ~Truthy(chunks[a][Len(chunks[a])].standings, "has_next")

\* the entries of the first n chunks, in page order then within-page order
RECURSIVE EntriesUpTo(_, _)
EntriesUpTo(cs, n) ==
    IF n = 0 THEN <<>> ELSE EntriesUpTo(cs, n - 1) \o cs[n].standings.results
RECURSIVE CountUpTo(_, _)
CountUpTo(cs, n) ==
    IF n = 0 THEN 0 ELSE CountUpTo(cs, n - 1) + Len(cs[n].standings.results)

\* C12: when the walk over a league with N pages is over (pages 1..N-1 said
\* has_next, page N did not), the standings requests made were exactly pages
\* 1..N of that league in increasing order, and the combined results are the
\* pages' results concatenated in page order, as many as the pages hold in all.
C12_WalkConcatenatesPages ==
    \A a \in Attempts :
        WalkFinished(a) =>
            LET N == Len(chunks[a])
            IN  /\ \A k \in 1..(N - 1) : chunks[a][k].standings.has_next
                /\ Len(calls[a]) = 3 + N
                /\ \A k \in 1..N : calls[a][3 + k] = <<"standings", league_id[a], k>>
                /\ combined[a].standings.results = EntriesUpTo(chunks[a], N)
                /\ Len(combined[a].standings.results) = CountUpTo(chunks[a], N)

\* a walk over three pages holding two entries, none and one
C12_Witness ==
    \E a \in Attempts :
        /\ pc[a] = "persisting"
        /\ Len(chunks[a]) = 3
        /\ chunks[a][1].standings.results = <<2, 1>>
        /\ chunks[a][2].standings.results = <<>>
        /\ chunks[a][3].standings.results = <<1>>
        /\ combined[a].standings.results = <<2, 1, 1>>

\* C13: GET /history/{league_id}/{gw} for a pair without a stored snapshot is
\* answered 404.
C13_MissingSnapshotIs404 ==
    ((hist.type = "history_gw")
        /\ ~HasRow(league_snapshots, hist.league_id, hist.gw))
    => /\ hist.resp.type = "HTTPException"
       /\ hist.resp.status_code = 404

\* C14: the fixtures verdict of a request is true exactly when the list of the
\* gameweek's fixtures is not empty, every fixture in it has finished = true,
\* and every fixture in it that carries finished_provisional has it true.
C14_FixturesVerdict ==
    \A a \in Attempts :
        all_done[a] <=>
            /\ Len(fixtures[a]) > 0
            /\ \A k \in 1..Len(fixtures[a]) :
                  /\ "finished" \in DOMAIN fixtures[a][k]
                  /\ fixtures[a][k].finished
                  /\ ("finished_provisional" \in DOMAIN fixtures[a][k])
                        => fixtures[a][k].finished_provisional

\* two finished fixtures of the gameweek, the second one not provisionally
\* finished, and the verdict is false
C14_Witness ==
    \E a \in Attempts :
        /\ pc[a] = "bootstrap"
        /\ fixtures[a] = <<[event |-> 1, finished |-> TRUE,
                            finished_provisional |-> TRUE],
                           [event |-> 1, finished |-> TRUE,
                            finished_provisional |-> FALSE]>>
        /\ ~all_done[a]

\* a step of request a inside a call of the fetcher, other than the expiry
\* of the deadline
FetcherStep(a) ==
    (pc[a] \in Fetching) /\ (expired'[a] = expired[a])
        /\ (<<pc[a], fetcher, calls[a]>> # <<pc[a], fetcher, calls[a]>>')

\* C15: a call of the fetcher makes at most 2 HTTP attempts.  An attempt that
\* succeeds ends the call at once.  A first attempt that fails, with whatever
\* error, is followed by one more attempt of the same call.  An error reaches
\* the caller only after two failed attempts, and it is the error of the
\* second one.
C15_AtMostTwoAttempts ==
    [][ \A a \in Attempts :
          /\ Len(raised'[a]) + (IF phase'[a] = "get" THEN 1 ELSE 0) <= 2
          /\ (FetcherStep(a) /\ (phase[a] = "get") /\ (phase'[a] = "get"))
              => \/ pc'[a] # pc[a]
                 \/ /\ Len(calls'[a]) = Len(calls[a]) + 1
                    /\ raised'[a] = <<>>
          /\ (FetcherStep(a) /\ (phase[a] = "sleep") /\ (Len(raised[a]) = 1))
              => /\ pc'[a] = pc[a]
                 /\ outcome'[a] = outcome[a]
                 /\ calls'[a] = calls[a]
                 /\ phase'[a] = "get"
                 /\ raised'[a] = raised[a]
          /\ (FetcherStep(a) /\ (pc'[a] = "done") /\ (phase[a] = "sleep"))
              => /\ Len(raised[a]) = 2
                 /\ outcome'[a].type = "HTTPException"
                 /\ outcome'[a].detail = raised[a][2].type
                 /\ (raised[a][2].type = "HTTPStatusError")
                       => (outcome'[a].status_code = raised[a][2].status_code)
      ]_vars

\* a call whose first attempt was answered 404 and whose second attempt met a
\* connection failure; the request was answered with the second error
C15_Witness ==
    \E a \in Attempts :
        /\ pc[a] = "done"
        /\ ~expired[a]
        /\ raised[a] = <<HTTPStatusError(404), ConnectError>>
        /\ outcome[a] = [type |-> "HTTPException", status_code |-> 500,
                          detail |-> "ConnectError"]

\* C16: the fetcher sleeps only between attempts: whenever it sleeps, one
\* attempt of the call has failed and another one follows, so a call is never
\* asleep after its second failure.
C16_SleepOnlyBetweenAttempts ==
    \A a \in Attempts :
        ((pc[a] \in Fetching) /\ (phase[a] = "sleep"))
        => /\ Len(raised[a]) = 1
           /\ attempt_i[a] + 1 < attempts

\* C17: the store code of a request runs only after the page without
\* has_next has arrived, with every page 1..N fetched, and a row it inserts
\* holds the results of all N pages; the table changes in no other step.
C17_PersistsCompleteAggregation ==
    [][ /\ \A a \in Attempts :
              ((pc[a] = "persisting") \/ (pc'[a] = "persisting"))
              => /\ WalkFinished(a)'
                 /\ Len(chunks'[a]) = page'[a]
                 /\ \A k \in 1..(Len(chunks'[a]) - 1) :
                       chunks'[a][k].standings.has_next
        /\ \A k \in (Len(league_snapshots) + 1)..Len(league_snapshots') :
              \E a \in Attempts :
                  /\ pc[a] = "persisting"
                  /\ league_snapshots'[k].league_id = league_id[a]
                  /\ league_snapshots'[k].data.text.standings.results
                        = EntriesUpTo(chunks[a], Len(chunks[a]))
        /\ (Len(league_snapshots') >= Len(league_snapshots))
      ]_vars

\* the stored row holds the entries of a walk over three pages
C17_Witness ==
    \E a \in Attempts :
        /\ IsSnapshotted(a)
        /\ Len(chunks[a]) = 3
        /\ Len(league_snapshots) = 1
        /\ league_snapshots[1].data.text.standings.results = <<1, 2, 1, 1>>

\* every page request a has received so far reported has_next
EndlessSoFar(a) ==
    /\ chunks[a] # <<>>
    /\ \A k \in 1..Len(chunks[a]) : Truthy(chunks[a][k].standings, "has_next")

\* C18: every request that was started is eventually answered, and answered
\* once: the answer is set when the request ends and stays as it is.  The page
\* loop goes on for as long as the pages report has_next: such a request
\* never reaches the store code or a normal return, and unless the fetch in
\* progress itself fails, it is the deadline that ends it, with TimedOut.
C18_EveryAttemptEnds ==
    /\ \A a \in Attempts : (pc[a] \in Active) ~> (pc[a] = "done")
    /\ [][ \A a \in Attempts :
              /\ (pc'[a] = "done") <=> (outcome'[a].type \in {"return", "HTTPException"})
              /\ (pc[a] = "done" /\ pc'[a] = "done") => (outcome'[a] = outcome[a])
              /\ (EndlessSoFar(a) /\ EndlessSoFar(a)')
                  => /\ pc'[a] \in {"standings", "done"}
                     /\ (pc'[a] = "done") =>
                           /\ outcome'[a].type = "HTTPException"
                           /\ expired'[a] => (outcome'[a] = TimedOut)
                           /\ ((raised'[a] = <<>>) /\ (outcome'[a].detail # "KeyError"))
                                 => (outcome'[a] = TimedOut)
       ]_vars

\* every page up to the model's last reported has_next, no attempt failed,
\* and the request was answered TimedOut
C18_Witness ==
    \E a \in Attempts :
        /\ pc[a] = "done"
        /\ EndlessSoFar(a)
        /\ Len(chunks[a]) = MaxPages - 1
        /\ page[a] = MaxPages
        /\ raised[a] = <<>>
        /\ outcome[a] = TimedOut

\* C19: the expiry of the deadline ends a request that is inside a fetch
\* without another attempt or sleep of the fetcher, and from the expiry on the
\* request makes no upstream request, writes no row and takes no further step
\* of do_work.
C19_NothingAfterExpiry ==
    [][ \A a \in Attempts :
          /\ (~expired[a] /\ expired'[a] /\ (pc[a] \in Fetching))
              => /\ pc'[a] = "done"
                 /\ outcome'[a] = TimedOut
                 /\ <<attempt_i[a], phase[a], raised[a], calls[a]>>'
                       = <<attempt_i[a], phase[a], raised[a], calls[a]>>
          /\ (expired[a] /\ (pc[a] \in Active))
              => /\ league_snapshots' = league_snapshots
                 /\ calls'[a] = calls[a]
                 /\ outcome'[a] = outcome[a]
      ]_vars

\* a chunk without its entries
Frame(chunk) == [chunk EXCEPT !.standings.results = <<>>]

\* C20: whatever pages have arrived, everything in the combined result but
\* the results list is page 1's: the league metadata and every standings
\* field, has_next included, so after a walk of more than one page the
\* combined result still says has_next.
C20_FrameIsPageOne ==
    \A a \in Attempts :
        (chunks[a] # <<>>) =>
            /\ Frame(combined[a]) = Frame(chunks[a][1])
            /\ combined[a].league = chunks[a][1].league
            /\ (Len(chunks[a]) > 1) => combined[a].standings.has_next

\* after a walk of three pages, the last of which carries no has_next, the
\* combined result says page 1 and has_next
C20_Witness ==
    \E a \in Attempts :
        /\ pc[a] = "persisting"
        /\ Len(chunks[a]) = 3
        /\ "has_next" \notin DOMAIN chunks[a][3].standings
        /\ chunks[a][3].standings.page = 3
        /\ combined[a].standings.page = 1
        /\ combined[a].standings.has_next
        /\ combined[a].standings.results = <<1, 1, 2, 1>>
====
